---------------------------- MODULE Spec2Model ----------------------------
(***************************************************************************)
(* Model of src/stock_analysis/app.py: a Streamlit script that fetches a   *)
(* daily price series through a memoised download_data, appends four       *)
(* pandas_ta indicators in place, drops the rows holding a missing value,  *)
(* and renders charts, a performance summary and a table.                  *)
(*                                                                         *)
(* A DataFrame is a record [multi, index, cols]: index is the sequence of  *)
(* row labels (dates, numbered from 1 in the fetched series), cols maps a  *)
(* column label <<name, length>> to the sequence of its cells.  A cell is  *)
(* an integer, NaN being the one negative value.  Open, High, Low and      *)
(* Volume are read by no indicator and are carried as the one column       *)
(* Volume.  Arithmetic the integers cannot carry exactly is kept by what   *)
(* the script can observe of it: a simple moving average is held as the    *)
(* window's sum (the mean times the length), an exponential average as     *)
(* defined or not, and RSI as 0, 100 or a value strictly between.          *)
(***************************************************************************)
EXTENDS Integers, Sequences, FiniteSets, TLC

(***************************************************************************)
(* Cells                                                                   *)
(***************************************************************************)
NaN == 0 - 1

\* the cell of an exponential average that has a value
EMA_DEFINED == 1

\* the cell of an RSI strictly between 0 and 100
RSI_MID == 50

\* RSI's scalar: the value when there is no loss
RSI_MAX == 100

\* volatility of a sample whose returns are not all equal
VOL_POSITIVE == 1

CLOSE == <<"Close", 0>>

VOLUME == <<"Volume", 0>>

SMA_(length) == <<"SMA", length>>

EMA_(length) == <<"EMA", length>>

RSI_(length) == <<"RSI", length>>

Range(f) == {f[x] : x \in DOMAIN f}

\* the sequence <<f[lo], ..., f[hi]>>, each cell computed once
RECURSIVE Slice(_, _, _)
Slice(f, lo, hi) ==
    IF lo > hi THEN <<>>
    ELSE IF lo = hi THEN <<f[lo]>>
    ELSE Slice(f, lo, (lo + hi) \div 2) \o Slice(f, (lo + hi) \div 2 + 1, hi)

Tabulate(n, f) == Slice(f, 1, n)

Positions(n) == Tabulate(n, [i \in 1..n |-> i])

\* the running sums of col, a missing cell adding nothing
RECURSIVE RunningSums(_, _, _)
RunningSums(col, lo, hi) ==
    IF lo > hi THEN <<>>
    ELSE IF lo = hi THEN <<IF col[lo] = NaN THEN 0 ELSE col[lo]>>
    ELSE LET mid == (lo + hi) \div 2
             left == RunningSums(col, lo, mid)
             right == RunningSums(col, mid + 1, hi)
             carry == left[Len(left)]
         IN  left \o Tabulate(Len(right), [k \in 1..Len(right) |-> carry + right[k]])

\* the positions of the cells of col that hold a value, ascending
Observed(col) == SelectSeq(Positions(Len(col)), LAMBDA j : col[j] # NaN)

\* the positions of the missing cells of col
Missing(col) == {j \in 1..Len(col) : col[j] = NaN}

(***************************************************************************)
(* pandas_ta indicators over the Close column                              *)
(***************************************************************************)
\* verify_series: an indicator of a series shorter than its length returns
\* nothing, and nothing is appended
Verified(close, length) == Len(close) >= length

\* close.rolling(length, min_periods=length).mean(), times length: a value
\* where the window is whole and holds `length` observations
sma(close, length) ==
    LET sums == RunningSums(close, 1, Len(close))
        gaps == Missing(close)
    IN  Tabulate(Len(close), [i \in 1..Len(close) |->
            IF i < length \/ \E g \in gaps : i - length < g /\ g <= i
            THEN NaN
            ELSE sums[i] - (IF i = length THEN 0 ELSE sums[i - length])])

\* the first length-1 cells are blanked, cell `length` is seeded with the mean
\* of the first `length` closes that hold a value, then ewm(span).mean(), which
\* has a value once one observation has been seen and keeps it across a gap
ema(close, length) ==
    LET seen == Observed(close)
        first == IF seen = <<>> THEN Len(close) + 1
                 ELSE IF seen[1] <= length THEN length ELSE seen[1]
    IN  Tabulate(Len(close), [i \in 1..Len(close) |->
            IF i < first THEN NaN ELSE EMA_DEFINED])

\* close.diff() with the losses made 0 (positive) and with the gains made 0
\* and the sign dropped (negative.abs()): NaN in the first row and beside a
\* missing close
Positive(close) ==
    Tabulate(Len(close), [i \in 1..Len(close) |->
        IF i = 1 \/ close[i] = NaN \/ close[i - 1] = NaN THEN NaN
        ELSE IF close[i] > close[i - 1] THEN close[i] - close[i - 1] ELSE 0])

Negative(close) ==
    Tabulate(Len(close), [i \in 1..Len(close) |->
        IF i = 1 \/ close[i] = NaN \/ close[i - 1] = NaN THEN NaN
        ELSE IF close[i] < close[i - 1] THEN close[i - 1] - close[i] ELSE 0])

\* rma: x.ewm(alpha=1/length, min_periods=length).mean().  It has a value from
\* the `length`-th observation on; its weights are all positive, so the
\* average of non-negative x up to row i is positive (1) exactly when some x
\* up to row i is positive, and 0 otherwise.
rma(x, length) ==
    LET seen == Observed(x)
        moves == SelectSeq(seen, LAMBDA j : x[j] > 0)
    IN  Tabulate(Len(x), [i \in 1..Len(x) |->
            IF Len(seen) < length \/ i < seen[length] THEN NaN
            ELSE IF moves # <<>> /\ moves[1] <= i THEN 1 ELSE 0])

\* scalar * positive_avg / (positive_avg + negative_avg.abs()); 0/0 is NaN
RsiQuotient(p, n) ==
    IF p = NaN \/ n = NaN \/ p + n = 0 THEN NaN
    ELSE IF n = 0 THEN RSI_MAX
    ELSE IF p = 0 THEN 0
    ELSE RSI_MID

rsi(close, length) ==
    LET positive_avg == rma(Positive(close), length)
        negative_avg == rma(Negative(close), length)
    IN  Tabulate(Len(close), [i \in 1..Len(close) |->
            RsiQuotient(positive_avg[i], negative_avg[i])])

(***************************************************************************)
(* DataFrames                                                              *)
(***************************************************************************)
\* what download_data returns from its except branch
None == [kind |-> "None"]

DataFrame(multi, index, cols) ==
    [kind |-> "DataFrame", multi |-> multi, index |-> index, cols |-> cols]

\* data.empty
Empty(df) == Len(df.index) = 0

\* data.columns.droplevel(1) when the columns are a MultiIndex
Flatten(df) == IF df.multi THEN [df EXCEPT !.multi = FALSE] ELSE df

\* data.ta.<indicator>(length=..., append=True): df[label] = cells, in place;
\* nothing is appended when the indicator returned nothing
AppendColumn(df, label, length, cells) ==
    IF Verified(df.cols[CLOSE], length)
    THEN [df EXCEPT !.cols = (label :> cells) @@ df.cols]
    ELSE df

\* the positions of the rows with no NaN in any column, ascending
CompleteRows(df) ==
    LET Complete(i) == \A c \in DOMAIN df.cols : df.cols[c][i] # NaN
    IN  SelectSeq(Positions(Len(df.index)), Complete)

Take(seq, rows) == Tabulate(Len(rows), [k \in 1..Len(rows) |-> seq[rows[k]]])

\* data.dropna(inplace=True)
dropna(df) ==
    LET rows == CompleteRows(df) IN
    [df EXCEPT !.index = Take(df.index, rows),
               !.cols = [c \in DOMAIN df.cols |-> Take(df.cols[c], rows)]]

(***************************************************************************)
(* The main script, from the data check to the export                      *)
(***************************************************************************)
\* lines 69-72: the four indicators, appended in place
Indicators(df, short, long, emaLen, rsiLen) ==
    LET close == df.cols[CLOSE]
        d1 == AppendColumn(df, SMA_(short), short, sma(close, short))
        d2 == AppendColumn(d1, SMA_(long), long, sma(close, long))
        d3 == AppendColumn(d2, EMA_(emaLen), emaLen, ema(close, emaLen))
    IN  AppendColumn(d3, RSI_(rsiLen), rsiLen, rsi(close, rsiLen))

\* line 110: (end_price / start_price) - 1, as <<numerator, denominator>>
TotalReturn(close) == <<close[Len(close)] - close[1], close[1]>>

\* line 111: the standard deviation (ddof=1) of pct_change(), times sqrt(252):
\* NaN below two returns, 0 when the returns are all equal
Volatility(close) ==
    LET n == Len(close) IN
    IF n < 3 THEN NaN
    ELSE IF \A i \in 2..n : close[i] * close[1] = close[2] * close[i - 1]
         THEN 0 ELSE VOL_POSITIVE

NoSummary == [made |-> FALSE]

\* lines 108-111
Summary(close) ==
    [made |-> TRUE,
     start_price |-> close[1],
     end_price |-> close[Len(close)],
     total_return |-> TotalReturn(close),
     annualized_volatility |-> Volatility(close)]

\* lines 75-129 over the aligned frame: the elements rendered, in order, the
\* summary, and the exception when a lookup raises
Render(df, short, long, emaLen, rsiLen) ==
    IF {SMA_(short), SMA_(long), EMA_(emaLen)} \ DOMAIN df.cols # {}
    THEN [out |-> <<"header", "exception">>, exc |-> "KeyError",
          summary |-> NoSummary]
    ELSE IF RSI_(rsiLen) \notin DOMAIN df.cols
    THEN [out |-> <<"header", "price_chart", "exception">>, exc |-> "KeyError",
          summary |-> NoSummary]
    ELSE IF Len(df.index) = 0
    THEN [out |-> <<"header", "price_chart", "rsi_chart", "summary_header",
                    "exception">>,
          exc |-> "IndexError", summary |-> NoSummary]
    ELSE [out |-> <<"header", "price_chart", "rsi_chart", "summary_header",
                    "metrics", "data_header", "table", "download_button">>,
          exc |-> "none", summary |-> Summary(df.cols[CLOSE])]

(***************************************************************************)
(* Inputs                                                                  *)
(***************************************************************************)
\* the slider bounds and defaults of lines 51-54
SHORT_MIN == 5
SHORT_MAX == 50
SHORT_VALUE == 20
LONG_MIN == 50
LONG_MAX == 200
LONG_VALUE == 50
EMA_MIN == 5
EMA_MAX == 50
EMA_VALUE == 20
RSI_MIN == 7
RSI_MAX_LEN == 30
RSI_VALUE == 14

\* how far above its minimum a slider is moved
WindowSpread == 1

\* rows of the series shorter than every window but the smallest
ShortRows == 5

\* rows beyond the long window's minimum in the longer series
ExtraRows == 3

\* rows of the constant series
MaxRows == 300

\* a slider that lets the value one below its minimum through
SliderBelowMin(min_value, max_value, value) ==
    {v \in (min_value - 1)..max_value :
        v = value \/ v < min_value + WindowSpread}

\* st.slider returns a value between min_value and max_value; the values
\* explored are the default and those next to the minimum
slider(min_value, max_value, value) ==
    {v \in min_value..max_value : v = value \/ v < min_value + WindowSpread}

Sessions == {"s1", "s2"}

\* what is typed into the ticker box, and .upper() of it
TickerInputs == {"", "aapl", "MSFT"}

\* the inputs that name one instrument or none
OneTicker == {"", "aapl"}

upper(text) == IF text = "aapl" THEN "AAPL" ELSE text

Tickers == {upper(t) : t \in TickerInputs} \ {""}

\* the date inputs are left at one pair of dates
START_DATE == "2023-01-01"

END_DATE == "today"

Keys == {<<t, START_DATE, END_DATE>> : t \in Tickers}

Bars(n, close, volume) ==
    DataFrame(FALSE, Tabulate(n, [i \in 1..n |-> i]),
              (CLOSE :> Tabulate(n, [i \in 1..n |-> close[i]])) @@
              (VOLUME :> Tabulate(n, [i \in 1..n |-> volume[i]])))

Rising(n) == Bars(n, [i \in 1..n |-> 100 + i], [i \in 1..n |-> 10])

Constant(n) == Bars(n, [i \in 1..n |-> 100], [i \in 1..n |-> 10])

Zigzag(n) == Bars(n, [i \in 1..n |-> 100 + (i % 2)], [i \in 1..n |-> 10])

FlatThenRising(n, flat) ==
    Bars(n, [i \in 1..n |-> IF i <= flat THEN 100 ELSE 100 + i - flat],
         [i \in 1..n |-> 10])

WithNaN(df, c, i) == [df EXCEPT !.cols[c][i] = NaN]

MultiIndexed(df) == [df EXCEPT !.multi = TRUE]

\* what yf.download can do: raise, report a failed download by returning an
\* empty frame, or return bars
Raised == [status |-> "raised"]

Swallowed == [status |-> "swallowed", df |-> Rising(0)]

Ok(df) == [status |-> "ok", df |-> df]

AdapterFrames ==
    {Rising(0), Rising(ShortRows), Rising(LONG_MIN), Rising(LONG_MIN + 1),
     MultiIndexed(Rising(LONG_MIN + ExtraRows)),
     WithNaN(Rising(LONG_MIN + ExtraRows), VOLUME, LONG_MIN + 2),
     WithNaN(Rising(LONG_MIN + ExtraRows), VOLUME, LONG_MIN),
     WithNaN(Zigzag(LONG_MIN + ExtraRows), CLOSE, 2),
     FlatThenRising(LONG_MIN + ExtraRows + 1, LONG_MIN + 1),
     Constant(MaxRows)}

AdapterReplies == {Raised, Swallowed} \cup {Ok(df) : df \in AdapterFrames}

SharedReplies ==
    {Raised, Swallowed, Ok(Rising(0)),
     Ok(MultiIndexed(Rising(LONG_MIN + ExtraRows)))}

Config(short, long, emaLen, rsiLen) ==
    [short_ma |-> short, long_ma |-> long, ema_period |-> emaLen,
     rsi_period |-> rsiLen]

\* every setting of the four sliders
Configs ==
    {Config(a, b, c, d) :
        a \in slider(SHORT_MIN, SHORT_MAX, SHORT_VALUE),
        b \in slider(LONG_MIN, LONG_MAX, LONG_VALUE),
        c \in slider(EMA_MIN, EMA_MAX, EMA_VALUE),
        d \in slider(RSI_MIN, RSI_MAX_LEN, RSI_VALUE)}

\* the settings that move the short-term slider only
ShortConfigs ==
    {c \in Configs : c.long_ma = LONG_VALUE /\ c.ema_period = EMA_VALUE
                     /\ c.rsi_period = RSI_VALUE}

(***************************************************************************)
(* State                                                                   *)
(***************************************************************************)
VARIABLES
    cache,        \* st.cache_data's entries of download_data, by key
    heap,         \* the objects: the pickled value of each entry, each run's data
    lock,         \* the holder of each key's compute lock
    calls,        \* how often yf.download was called, by key
    fetched,      \* what the first yf.download of a key did and download_data returned
    pc,           \* where each session's script run is
    ticker, short_ma, long_ma, ema_period, rsi_period,   \* the widgets' values
    data,         \* the object each run's `data` names
    served,       \* how the run's download_data call was answered
    out,          \* the elements each run has rendered
    exc,          \* the exception that ended the run
    summary       \* the performance summary the run computed

vars == <<cache, heap, lock, calls, fetched, pc, ticker, short_ma, long_ma,
          ema_period, rsi_period, data, served, out, exc, summary>>

widgets == <<ticker, short_ma, long_ma, ema_period, rsi_period>>

Absent == [present |-> FALSE]

Entry(messages) == [present |-> TRUE, messages |-> messages]

Unset == [kind |-> "Unset"]

NoOne == "nobody"

NoRef == <<"none", "none">>

\* the object holding the pickled value of the entry of key k
KeyRef(k) == <<"entry", k[1]>>

\* the object a run of session s gets from download_data
RunRef(s) == <<"run", s>>

Refs == {KeyRef(k) : k \in Keys} \cup {RunRef(s) : s \in Sessions}

\* the cache key of a call: the arguments
CacheKey(t, start, end) == <<t, start, end>>

Key(s) == CacheKey(ticker[s], START_DATE, END_DATE)

NotFetched == [status |-> "none"]

Init ==
    /\ cache = [k \in Keys |-> Absent]
    /\ heap = [r \in Refs |-> Unset]
    /\ lock = [k \in Keys |-> NoOne]
    /\ calls = [k \in Keys |-> 0]
    /\ fetched = [k \in Keys |-> NotFetched]
    /\ pc = [s \in Sessions |-> "idle"]
    /\ ticker = [s \in Sessions |-> "AAPL"]
    /\ short_ma = [s \in Sessions |-> SHORT_VALUE]
    /\ long_ma = [s \in Sessions |-> LONG_VALUE]
    /\ ema_period = [s \in Sessions |-> EMA_VALUE]
    /\ rsi_period = [s \in Sessions |-> RSI_VALUE]
    /\ data = [s \in Sessions |-> NoRef]
    /\ served = [s \in Sessions |-> "none"]
    /\ out = [s \in Sessions |-> <<>>]
    /\ exc = [s \in Sessions |-> "none"]
    /\ summary = [s \in Sessions |-> NoSummary]

(***************************************************************************)
(* The script run of a session                                             *)
(***************************************************************************)
\* A widget interaction reruns the script from the top: lines 43-64.
Rerun(s, texts, configs) ==
    /\ pc[s] = "idle"
    /\ \E text \in texts, c \in configs, run_button \in BOOLEAN :
        /\ ticker' = [ticker EXCEPT ![s] = upper(text)]
        /\ short_ma' = [short_ma EXCEPT ![s] = c.short_ma]
        /\ long_ma' = [long_ma EXCEPT ![s] = c.long_ma]
        /\ ema_period' = [ema_period EXCEPT ![s] = c.ema_period]
        /\ rsi_period' = [rsi_period EXCEPT ![s] = c.rsi_period]
        /\ IF ~run_button
           THEN /\ out' = [out EXCEPT ![s] = <<"info">>]
                /\ pc' = pc
           ELSE IF upper(text) = ""
           THEN /\ out' = [out EXCEPT ![s] = <<"warning">>]
                /\ pc' = pc
           ELSE /\ out' = [out EXCEPT ![s] = <<>>]
                /\ pc' = [pc EXCEPT ![s] = "call"]
    /\ data' = [data EXCEPT ![s] = NoRef]
    /\ heap' = [heap EXCEPT ![RunRef(s)] = Unset]
    /\ served' = [served EXCEPT ![s] = "none"]
    /\ exc' = [exc EXCEPT ![s] = "none"]
    /\ summary' = [summary EXCEPT ![s] = NoSummary]
    /\ UNCHANGED <<cache, lock, calls, fetched>>

\* a cache that hands out the stored object itself
StoredObject(entryRef, runRef) == entryRef

\* read_result: the entry's value is unpickled into an object of the caller
read_result(entryRef, runRef) == runRef

\* A cache hit: the value is handed out and the messages recorded in the
\* cached call (st.error of line 34) are replayed.
Hit(s, k) ==
    LET ref == read_result(KeyRef(k), RunRef(s)) IN
    /\ heap' = [heap EXCEPT ![ref] = heap[KeyRef(k)]]
    /\ data' = [data EXCEPT ![s] = ref]
    /\ out' = [out EXCEPT ![s] = out[s] \o cache[k].messages]
    /\ served' = [served EXCEPT ![s] = "hit"]
    /\ pc' = [pc EXCEPT ![s] = "ready"]

\* a lookup that never finds the entry
NeverCached(k) == FALSE

Cached(k) == cache[k].present

\* line 64, the call of the memoised download_data: the lookup without the lock
CacheRead(s) ==
    /\ pc[s] = "call"
    /\ IF Cached(Key(s))
       THEN Hit(s, Key(s))
       ELSE /\ pc' = [pc EXCEPT ![s] = "miss"]
            /\ UNCHANGED <<heap, data, out, served>>
    /\ UNCHANGED <<cache, lock, calls, fetched, widgets, exc, summary>>

\* a miss that computes without the key's compute lock
Unlocked(k) == TRUE

\* the key's compute lock can be taken
LockFree(k) == lock[k] = NoOne

\* A miss: the key's compute lock is taken and the entry looked up again; on
\* a second miss lines 21-24 run and yf.download is called.
LockedRead(s) ==
    /\ pc[s] = "miss"
    /\ LockFree(Key(s))
    /\ IF Cached(Key(s))
       THEN /\ Hit(s, Key(s))
            /\ UNCHANGED <<lock, calls>>
       ELSE /\ lock' = [lock EXCEPT ![Key(s)] = s]
            /\ calls' = [calls EXCEPT ![Key(s)] = @ + 1]
            /\ pc' = [pc EXCEPT ![s] = "fetching"]
            /\ UNCHANGED <<heap, data, out, served>>
    /\ UNCHANGED <<cache, fetched, widgets, exc, summary>>

\* lines 24-35 once yf.download has answered, then write_result and the
\* release of the lock: the value is pickled into the entry's own object
Download(s, replies) ==
    /\ pc[s] = "fetching"
    /\ \E reply \in replies :
        LET k == Key(s)
            value == IF reply.status = "raised" THEN None ELSE Flatten(reply.df)
            messages == IF reply.status = "raised"
                        THEN <<"error_download">> ELSE <<>>
        IN  /\ cache' = [cache EXCEPT ![k] = Entry(messages)]
            /\ heap' = [heap EXCEPT ![KeyRef(k)] = value, ![RunRef(s)] = value]
            /\ data' = [data EXCEPT ![s] = RunRef(s)]
            /\ out' = [out EXCEPT ![s] = out[s] \o messages]
            /\ fetched' = [fetched EXCEPT ![k] =
                              IF @ = NotFetched
                              THEN [status |-> reply.status, value |-> value]
                              ELSE @]
            /\ lock' = [lock EXCEPT ![k] = NoOne]
    /\ served' = [served EXCEPT ![s] = "miss"]
    /\ pc' = [pc EXCEPT ![s] = "ready"]
    /\ UNCHANGED <<calls, widgets, exc, summary>>

\* lines 66-131: the data check, the indicators and dropna in place, the
\* charts, the summary and the export, or the error of line 131
Analyze(s) ==
    /\ pc[s] = "ready"
    /\ LET df == heap[data[s]] IN
       IF df = None \/ Empty(df)
       THEN /\ out' = [out EXCEPT ![s] = out[s] \o <<"error_fetch">>]
            /\ UNCHANGED <<heap, exc, summary>>
       ELSE LET aligned == dropna(Indicators(df, short_ma[s], long_ma[s],
                                             ema_period[s], rsi_period[s]))
                shown == Render(aligned, short_ma[s], long_ma[s],
                                ema_period[s], rsi_period[s])
            IN  /\ heap' = [heap EXCEPT ![data[s]] = aligned]
                /\ out' = [out EXCEPT ![s] = out[s] \o shown.out]
                /\ exc' = [exc EXCEPT ![s] = shown.exc]
                /\ summary' = [summary EXCEPT ![s] = shown.summary]
    /\ pc' = [pc EXCEPT ![s] = "idle"]
    /\ UNCHANGED <<cache, lock, calls, fetched, widgets, data, served>>

\* one browser session, every adapter reply and every slider setting
Next ==
    \E s \in {"s1"} :
        \/ Rerun(s, OneTicker, Configs)
        \/ CacheRead(s)
        \/ LockedRead(s)
        \/ Download(s, AdapterReplies)
        \/ Analyze(s)

Spec == Init /\ [][Next]_vars

\* two browser sessions, their script runs interleaved
NextShared ==
    \E s \in Sessions :
        \/ Rerun(s, TickerInputs \ {""}, ShortConfigs)
        \/ CacheRead(s)
        \/ LockedRead(s)
        \/ Download(s, SharedReplies)
        \/ Analyze(s)

SpecShared == Init /\ [][NextShared]_vars

(***************************************************************************)
(* Properties                                                              *)
(***************************************************************************)
\* the run of s got an answer from download_data
Returned(s) == served[s] # "none"

\* the run of s has ended
Finished(s) == pc[s] = "idle" /\ Returned(s)

\* the run of s passed the data check and aligned its frame (line 75 follows
\* the dropna)
Analyzed(s) == Finished(s) /\ out[s] # <<>> /\ "header" \in Range(out[s])

Failed(k) == fetched[k].status \in {"raised", "swallowed"}

Succeeded(k) == fetched[k].status = "ok"

\* C1: a call of download_data for a key fetched successfully before is
\* answered from the cache with the content of the first retrieval, and
\* yf.download is called at most once for a successfully fetched key.
C1_CachedFetchNotRepeated ==
    /\ \A k \in Keys : Succeeded(k) => calls[k] <= 1
    /\ \A s \in Sessions :
        (pc[s] = "ready" /\ served[s] = "hit" /\ Succeeded(Key(s)))
            => heap[data[s]] = fetched[Key(s)].value

C1_Witness ==
    \E s \in Sessions :
        /\ pc[s] = "ready" /\ served[s] = "hit" /\ Succeeded(Key(s))
        /\ calls[Key(s)] = 1
        /\ ~Empty(heap[data[s]])

\* C2: a failed fetch leaves no entry: a call for a key whose fetch failed is
\* not answered from the cache.
C2_FailureNotMemoized ==
    /\ \A k \in Keys : Failed(k) => ~Cached(k)
    /\ \A s \in Sessions : (Returned(s) /\ Failed(Key(s))) => served[s] = "miss"

\* C3: at most one session is inside yf.download for a key at any time; a
\* session that misses a key in flight cannot start a second fetch; and the
\* sessions handed the value of one key hold the same content.
C3_OneFetchPerKey ==
    /\ \A s, t \in Sessions :
        (s # t /\ pc[s] = "fetching" /\ pc[t] = "fetching") => Key(s) # Key(t)
    /\ \A s, t \in Sessions :
        (pc[s] = "miss" /\ pc[t] = "fetching" /\ Key(s) = Key(t))
            => ~ENABLED LockedRead(s)
    /\ \A k \in Keys : calls[k] <= 1
    /\ \A s, t \in Sessions :
        (pc[s] = "ready" /\ pc[t] = "ready" /\ Key(s) = Key(t))
            => heap[data[s]] = heap[data[t]]

C3_Witness ==
    \E s, t \in Sessions :
        /\ pc[s] = "miss" /\ pc[t] = "fetching" /\ Key(s) = Key(t)

\* the labels of the four indicator columns of the run of s
IndicatorLabels(s) ==
    {SMA_(short_ma[s]), SMA_(long_ma[s]), EMA_(ema_period[s]),
     RSI_(rsi_period[s])}

\* the fetched series of the run of s with the indicators, before the dropna
Unaligned(s) ==
    Indicators(fetched[Key(s)].value, short_ma[s], long_ma[s], ema_period[s],
               rsi_period[s])

\* every one of the four indicators has a value in row i of frame df
AllDefined(df, s, i) ==
    \A c \in IndicatorLabels(s) : c \in DOMAIN df.cols /\ df.cols[c][i] # NaN

\* the rows from the first with the four indicators defined to the last
DefinedSuffix(s) ==
    LET u == Unaligned(s)
        rows == {i \in 1..Len(u.index) : AllDefined(u, s, i)}
    IN  IF rows = {} THEN <<>>
        ELSE SelectSeq(u.index,
                       LAMBDA d : d >= u.index[CHOOSE i \in rows :
                                                  \A j \in rows : i <= j])

\* C4: the aligned frame is the suffix of the fetched series that starts at
\* the first row with the four indicators defined, no later row removed, and
\* each of its rows has the four indicators defined.
C4_AlignedIsDefinedSuffix ==
    \A s \in Sessions :
        Analyzed(s) =>
            LET aligned == heap[data[s]] IN
            /\ aligned.index = DefinedSuffix(s)
            /\ \A i \in 1..Len(aligned.index) : AllDefined(aligned, s, i)

\* C5: an aligned series of fewer than two rows yields no summary.
C5_NoSummaryBelowTwoRows ==
    \A s \in Sessions :
        (Analyzed(s) /\ Len(heap[data[s]].index) < 2)
            => (~summary[s].made /\ "metrics" \notin Range(out[s]))

\* the charts, the metrics and the table
Outputs == {"price_chart", "rsi_chart", "metrics", "table"}

\* the run of s ended in an error: the fetch failed or was empty, or fewer
\* than two rows were left
EndedInError(s) ==
    /\ Finished(s)
    /\ \/ heap[data[s]] = None
       \/ Len(heap[data[s]].index) < 2

\* C6: a run that ends in an error has rendered no chart, metric or table.
C6_NoOutputOnError ==
    \A s \in Sessions : EndedInError(s) => Range(out[s]) \cap Outputs = {}

\* C7: a run whose fetch failed and a run whose fetch returned no rows do not
\* render the same elements.
C7_EmptyDistinctFromFailed ==
    \A s, t \in Sessions :
        (/\ Finished(s) /\ Failed(Key(s))
         /\ Finished(t) /\ Succeeded(Key(t)) /\ Empty(fetched[Key(t)].value))
            => out[s] # out[t]

\* C8: the value of an entry stays what download_data first returned, with
\* the fetched columns and rows only, and a hit hands out that value,
\* whatever earlier runs did to the frames they received.
C8_FetchedSeriesImmutable ==
    /\ \A k \in Keys : Cached(k) => heap[KeyRef(k)] = fetched[k].value
    /\ \A s \in Sessions :
        (pc[s] = "ready" /\ served[s] = "hit" /\ heap[data[s]] # None)
            => /\ DOMAIN heap[data[s]].cols = {CLOSE, VOLUME}
               /\ heap[data[s]].index = fetched[Key(s)].value.index

C8_Witness ==
    \E s, t \in Sessions :
        /\ s # t /\ Key(s) = Key(t)
        /\ Analyzed(t) /\ heap[data[t]] # fetched[Key(t)].value
        /\ short_ma[s] # short_ma[t]
        /\ pc[s] = "ready" /\ served[s] = "hit"

\* C9: the run over the constant series of MaxRows rows keeps the rows from
\* the first fully defined one, each with RSI 100, and reports a total
\* return of 0 and a volatility of 0.
C9_ConstantSeriesSummary ==
    \A s \in Sessions :
        (Analyzed(s) /\ fetched[Key(s)].value = Constant(MaxRows))
            => LET aligned == heap[data[s]] IN
               /\ aligned.index # <<>>
               /\ RSI_(rsi_period[s]) \in DOMAIN aligned.cols
               /\ \A i \in 1..Len(aligned.index) :
                    aligned.cols[RSI_(rsi_period[s])][i] = RSI_MAX
               /\ summary[s].made
               /\ summary[s].total_return[1] = 0
               /\ summary[s].annualized_volatility = 0

\* C10: while download_data is being called, the four windows are within the
\* bounds of their sliders.
C10_WindowsWithinBounds ==
    \A s \in Sessions :
        pc[s] \in {"call", "miss", "fetching"} =>
            /\ short_ma[s] \in SHORT_MIN..SHORT_MAX
            /\ long_ma[s] \in LONG_MIN..LONG_MAX
            /\ ema_period[s] \in EMA_MIN..EMA_MAX
            /\ rsi_period[s] \in RSI_MIN..RSI_MAX_LEN

C10_Witness ==
    \E s \in Sessions :
        /\ pc[s] = "fetching"
        /\ short_ma[s] = SHORT_MIN /\ long_ma[s] = LONG_MIN
        /\ ema_period[s] = EMA_MIN /\ rsi_period[s] = RSI_MIN
=============================================================================
